---------------------------- MODULE Spec2Model ----------------------------
(***************************************************************************)
(* Model of build_resume_html.py: a linear script that parses a Coursera   *)
(* CSV export, optionally fetches completed courses from the Coursera API, *)
(* loads an external JSON course list, merges the completed records into a *)
(* certifications list and renders index.html.                             *)
(*                                                                         *)
(* Python values are tagged records: PyNone, Str(<<chars>>), Num(n),       *)
(* DateTime(y, m, d).  A str is a sequence of one-character strings, so    *)
(* lower(), float(), strptime(), strftime() and slicing are computed on    *)
(* the characters.  A float is an integer number of hundredths; the        *)
(* inputs are multiples of 0.25, which binary floating point represents    *)
(* exactly, so sums and round(x, 1) are exact in the model as in CPython.  *)
(* A dict is a function whose domain is its set of keys.                   *)
(***************************************************************************)
EXTENDS Integers, Sequences, FiniteSets, TLC

VARIABLES
    pc,          \* position in main(): the next statement to run
    token,       \* args.coursera_token
    csvFile,     \* the file at args.csv: NoFile, or its rows as csv.DictReader yields them
    apiResp,     \* what the Coursera endpoint answers to the GET of line 73
    extFile,     \* the file at args.external: NoFile, or its JSON text parsed
    total_csv,   \* main's local total_csv
    recent_csv,  \* main's local recent_csv
    completed,   \* main's local completed
    external,    \* main's local external
    certs,       \* main's local certs
    outDir,      \* the directory args.out and its index.html
    stdout,      \* the lines printed
    calls,       \* the components main has invoked, in order
    err          \* the exception that ended the run, or NoError

vars == <<pc, token, csvFile, apiResp, extFile, total_csv, recent_csv,
          completed, external, certs, outDir, stdout, calls, err>>

---------------------------------------------------------------------------
(* Python values *)

PyNone == [t |-> "None"]

Str(s) == [t |-> "str", v |-> s]

Num(n) == [t |-> "num", v |-> n]

DateTime(y, m, d) == [t |-> "datetime", y |-> y, m |-> m, d |-> d]

\* datetime.min, the sort key of an undated record (line 66)
DateTimeMin == DateTime(1, 1, 1)

EmptyStr == Str(<<>>)

\* bool(x) as the conditions of lines 52, 64, 66, 76 and 126 take it
Truthy(x) ==
    CASE x.t = "None" -> FALSE
      [] x.t = "str" -> x.v # <<>>
      [] x.t = "num" -> x.v # 0
      [] OTHER -> TRUE

\* dict.get(key, default)
Get(dict, key, default) == IF key \in DOMAIN dict THEN dict[key] ELSE default

---------------------------------------------------------------------------
(* str operations *)

UpperChars == <<"A","B","C","D","E","F","G","H","I","J","K","L","M",
                "N","O","P","Q","R","S","T","U","V","W","X","Y","Z">>

LowerChars == <<"a","b","c","d","e","f","g","h","i","j","k","l","m",
                "n","o","p","q","r","s","t","u","v","w","x","y","z">>

DigitChars == <<"0","1","2","3","4","5","6","7","8","9">>

LowerChar(c) ==
    IF \E i \in 1..Len(UpperChars) : UpperChars[i] = c
    THEN LowerChars[CHOOSE i \in 1..Len(UpperChars) : UpperChars[i] = c]
    ELSE c

\* str.lower()
Lower(s) == [i \in 1..Len(s) |-> LowerChar(s[i])]

IsDigit(c) == \E i \in 1..Len(DigitChars) : DigitChars[i] = c

DigitVal(c) == (CHOOSE i \in 1..Len(DigitChars) : DigitChars[i] = c) - 1

AllDigits(s) == \A i \in 1..Len(s) : IsDigit(s[i])

RECURSIVE DecVal(_)
\* the value of a sequence of decimal digits
DecVal(s) ==
    IF s = <<>> THEN 0
    ELSE 10 * DecVal(SubSeq(s, 1, Len(s) - 1)) + DigitVal(s[Len(s)])

RECURSIVE DecStr(_)
\* the decimal digits of a natural number, without padding
DecStr(n) ==
    IF n < 10 THEN <<DigitChars[n + 1]>>
    ELSE DecStr(n \div 10) \o <<DigitChars[(n % 10) + 1]>>

\* s[:n]
Prefix(s, n) == SubSeq(s, 1, IF Len(s) < n THEN Len(s) ELSE n)

\* the positions of the character c in s
Positions(s, c) == {i \in 1..Len(s) : s[i] = c}

---------------------------------------------------------------------------
(* float() and round(), hours counted in hundredths *)

Failure(exc) == [ok |-> FALSE, exc |-> exc]

\* float(s) for a str of digits with at most one point and at most two
\* decimals; any other str of the model's inputs raises ValueError
PyFloat(s) ==
    LET dots == Positions(s, ".")
    IN  IF s = <<>> \/ Cardinality(dots) > 1 THEN Failure("ValueError")
        ELSE LET p    == IF dots = {} THEN Len(s) + 1 ELSE CHOOSE i \in dots : TRUE
                 int  == SubSeq(s, 1, p - 1)
                 frac == SubSeq(s, p + 1, Len(s))
             IN  IF /\ AllDigits(int) /\ AllDigits(frac)
                    /\ Len(int) + Len(frac) > 0 /\ Len(frac) <= 2
                 THEN [ok |-> TRUE,
                       v  |-> 100 * DecVal(int)
                              + (IF Len(frac) = 1 THEN 10 * DecVal(frac) ELSE DecVal(frac))]
                 ELSE Failure("ValueError")

\* float(r.get('Hours') or 0), line 52
HoursOf(r) ==
    LET h == Get(r, "Hours", PyNone)
    IN  IF ~Truthy(h) THEN [ok |-> TRUE, v |-> 0] ELSE PyFloat(h.v)

\* round(x, 1) of an exactly represented x: to the nearest tenth, a tie to
\* the even tenth
Round1(x) ==
    LET q == x \div 10
        r == x % 10
    IN  IF r < 5 THEN 10 * q
        ELSE IF r > 5 THEN 10 * (q + 1)
        ELSE IF q % 2 = 0 THEN 10 * q ELSE 10 * (q + 1)

---------------------------------------------------------------------------
(* datetime.strptime() and strftime() *)

IsLeap(y) == (y % 4 = 0 /\ y % 100 # 0) \/ y % 400 = 0

DaysInMonth(y, m) ==
    IF m = 2 THEN (IF IsLeap(y) THEN 29 ELSE 28)
    ELSE IF m \in {4, 6, 9, 11} THEN 30 ELSE 31

\* the three formats of line 56, in the order tried: the order of the
\* fields and the separator between them
DateFormats ==
    << [fields |-> <<"Y", "m", "d">>, sep |-> "-"],
       [fields |-> <<"d", "m", "Y">>, sep |-> "-"],
       [fields |-> <<"d", "m", "Y">>, sep |-> "/"] >>

\* whether the text matches one directive: %Y is four digits, %m and %d one
\* or two digits in range
MatchesDirective(field, text) ==
    /\ AllDigits(text)
    /\ CASE field = "Y" -> Len(text) = 4 /\ DecVal(text) >= 1
         [] field = "m" -> Len(text) \in {1, 2} /\ DecVal(text) \in 1..12
         [] OTHER       -> Len(text) \in {1, 2} /\ DecVal(text) \in 1..31

\* datetime.strptime(s, fmt): the datetime, or the ValueError of a str that
\* does not match the format or names no day of the calendar
Strptime(s, fmt) ==
    LET seps == Positions(s, fmt.sep)
    IN  IF Cardinality(seps) # 2 THEN Failure("ValueError")
        ELSE LET p1    == CHOOSE i \in seps : \A j \in seps : i <= j
                 p2    == CHOOSE i \in seps : \A j \in seps : j <= i
                 parts == << SubSeq(s, 1, p1 - 1), SubSeq(s, p1 + 1, p2 - 1),
                             SubSeq(s, p2 + 1, Len(s)) >>
                 At(f) == parts[CHOOSE i \in 1..3 : fmt.fields[i] = f]
             IN  IF /\ \A i \in 1..3 : MatchesDirective(fmt.fields[i], parts[i])
                    /\ DecVal(At("d")) <= DaysInMonth(DecVal(At("Y")), DecVal(At("m")))
                 THEN [ok |-> TRUE,
                       v  |-> DateTime(DecVal(At("Y")), DecVal(At("m")), DecVal(At("d")))]
                 ELSE Failure("ValueError")

RECURSIVE TryFormats(_, _)
\* lines 55-58: dt stays None unless a format parses the first ten
\* characters; a field that is None makes every attempt raise TypeError,
\* which the bare except swallows as well
TryFormats(field, i) ==
    IF i > Len(DateFormats) THEN PyNone
    ELSE LET res == IF field.t # "str" THEN Failure("TypeError")
                    ELSE Strptime(Prefix(field.v, 10), DateFormats[i])
         IN  IF res.ok THEN res.v ELSE TryFormats(field, i + 1)

ParseCompletionDate(r) == TryFormats(Get(r, "Completion Date", EmptyStr), 1)

MonthAbbr ==
    << <<"J","a","n">>, <<"F","e","b">>, <<"M","a","r">>, <<"A","p","r">>,
       <<"M","a","y">>, <<"J","u","n">>, <<"J","u","l">>, <<"A","u","g">>,
       <<"S","e","p">>, <<"O","c","t">>, <<"N","o","v">>, <<"D","e","c">> >>

\* dt.strftime('%d %b %Y'): the day on two digits, the English month
\* abbreviation, the year as the C library prints it
Strftime(dt) ==
    Str(<<DigitChars[(dt.d \div 10) + 1], DigitChars[(dt.d % 10) + 1], " ">>
        \o MonthAbbr[dt.m] \o <<" ">> \o DecStr(dt.y))

---------------------------------------------------------------------------
(* parse_coursera_csv, lines 47-67 *)

NoFile == [exists |-> FALSE]

File(content) == [exists |-> TRUE, content |-> content]

ProviderLabel == Str(<<"C","o","u","r","s","e","r","a">>)

\* the tuple of line 54 with its last status left out
CompletedStatusesWithoutCertificate ==
    { <<"c","o","m","p","l","e","t","e","d">>, <<"p","a","s","s","e","d">> }

\* the tuple of line 54
CompletedStatuses ==
    { <<"c","o","m","p","l","e","t","e","d">>,
      <<"p","a","s","s","e","d">>,
      <<"c","e","r","t","i","f","i","c","a","t","e"," ","e","a","r","n","e","d">> }

\* the dict of lines 59-65
CsvRecord(r, hrs) ==
    LET dt == ParseCompletionDate(r)
    IN  [ title                |-> Get(r, "Course Name", EmptyStr),
          provider             |-> ProviderLabel,
          hours                |-> Num(Round1(hrs)),
          completed_at         |-> dt,
          completed_at_display |-> IF Truthy(dt) THEN Strftime(dt) ELSE EmptyStr ]

\* the order of datetimes
DateOrd(dt) == dt.y * 10000 + dt.m * 100 + dt.d

\* the key of line 66: x['completed_at'] or datetime.min
SortKey(x) ==
    DateOrd(IF Truthy(x.completed_at) THEN x.completed_at ELSE DateTimeMin)

RECURSIVE InsertDesc(_, _)
\* x put behind every record whose key is not smaller than its own
InsertDesc(sorted, x) ==
    IF sorted = <<>> THEN <<x>>
    ELSE IF SortKey(Head(sorted)) >= SortKey(x)
         THEN <<Head(sorted)>> \o InsertDesc(Tail(sorted), x)
         ELSE <<x>> \o sorted

RECURSIVE SortDesc(_)
\* list.sort(key=..., reverse=True), line 66: descending by key, records of
\* equal key in their original order (the sort is stable, reversed or not)
SortDesc(comps) ==
    IF comps = <<>> THEN <<>>
    ELSE InsertDesc(SortDesc(SubSeq(comps, 1, Len(comps) - 1)), comps[Len(comps)])

RECURSIVE ReadRows(_, _, _)
\* the loop of lines 51-65 over the rows left: float() of an unparsable
\* Hours raises ValueError and .lower() of a Status that is None raises
\* AttributeError, neither caught
ReadRows(rows, total, comps) ==
    IF rows = <<>> THEN [ok |-> TRUE, total |-> total, comps |-> comps]
    ELSE LET r   == Head(rows)
             hrs == HoursOf(r)
             st  == Get(r, "Status", EmptyStr)
         IN  IF ~hrs.ok THEN Failure(hrs.exc)
             ELSE IF st.t # "str" THEN Failure("AttributeError")
             ELSE ReadRows(Tail(rows), total + hrs.v,
                           IF Lower(st.v) \in CompletedStatuses
                           THEN Append(comps, CsvRecord(r, hrs.v))
                           ELSE comps)

\* parse_coursera_csv without the test of line 49: open() of a missing path
\* raises
ParseWithoutExistsCheck(file) ==
    IF ~file.exists THEN Failure("FileNotFoundError")
    ELSE LET read == ReadRows(file.content, 0, <<>>)
         IN  IF read.ok
             THEN [ok |-> TRUE, total |-> Round1(read.total), comps |-> SortDesc(read.comps)]
             ELSE read

\* parse_coursera_csv(path): (round(total, 1), comps), or the exception
parse_coursera_csv(file) ==
    LET read == IF file.exists THEN ReadRows(file.content, 0, <<>>)
                ELSE [ok |-> TRUE, total |-> 0, comps |-> <<>>]
    IN  IF read.ok
        THEN [ok |-> TRUE, total |-> Round1(read.total), comps |-> SortDesc(read.comps)]
        ELSE read

---------------------------------------------------------------------------
(* fetch_coursera_api, lines 70-83 *)

TransportError == [t |-> "error"]

\* an HTTP response: its status code and its body, JSON or not
Response(status, body) == [t |-> "response", status |-> status, body |-> body]

NotJson == [json |-> FALSE]

Json(doc) == [json |-> TRUE, doc |-> doc]

\* resp.raise_for_status(), line 73: requests raises HTTPError for the
\* client and server error classes only
RaisesForStatus(status) == 400 <= status /\ status < 600

LearnUrl ==
    <<"h","t","t","p","s",":","/","/","w","w","w",".","c","o","u","r","s","e","r","a",
      ".","o","r","g","/","l","e","a","r","n","/">>

\* the text an f-string puts for a value
Format(x) == IF x.t = "str" THEN x.v ELSE <<"N","o","n","e">>

\* the dict of lines 77-82 with a workload that defaults to 0
ApiRecordZeroWorkload(e) ==
    [ title    |-> e["courseName"],
      provider |-> ProviderLabel,
      hours    |-> Get(e, "workload", Num(0)),
      url      |-> Str(LearnUrl \o Format(e["slug"])) ]

\* the dict of lines 77-82, its keys read
ApiRecord(e) ==
    [ title    |-> e["courseName"],
      provider |-> ProviderLabel,
      hours    |-> Get(e, "workload", PyNone),
      url      |-> Str(LearnUrl \o Format(e["slug"])) ]

RECURSIVE ReadElements(_, _)
\* the loop of lines 75-82: e['courseName'] and e['slug'] raise KeyError
\* when the key is absent
ReadElements(elements, out) ==
    IF elements = <<>> THEN [ok |-> TRUE, v |-> out]
    ELSE LET e == Head(elements)
         IN  IF ~Truthy(Get(e, "completionDate", PyNone))
             THEN ReadElements(Tail(elements), out)
             ELSE IF {"courseName", "slug"} \subseteq DOMAIN e
             THEN ReadElements(Tail(elements), Append(out, ApiRecord(e)))
             ELSE Failure("KeyError")

\* fetch_coursera_api(token) when the endpoint answers resp: the list, or
\* the exception of requests.get, raise_for_status, resp.json or the loop
fetch_coursera_api(resp) ==
    IF resp.t = "error" THEN Failure("ConnectionError")
    ELSE IF RaisesForStatus(resp.status) THEN Failure("HTTPError")
    ELSE IF ~resp.body.json THEN Failure("JSONDecodeError")
    ELSE ReadElements(Get(resp.body.doc, "elements", <<>>), <<>>)

---------------------------------------------------------------------------
(* fetch_external, lines 86-97 *)

InProgress == Str(<<"i","n","-","p","r","o","g","r","e","s","s">>)

Completed == Str(<<"c","o","m","p","l","e","t","e","d">>)

\* the dict of lines 90-96 with hours read without a default
ExternalRecordNoHoursDefault(itm) ==
    [ title    |-> Get(itm, "title", EmptyStr),
      provider |-> Get(itm, "provider", EmptyStr),
      hours    |-> Get(itm, "estimated_hours", PyNone),
      status   |-> Get(itm, "status", InProgress),
      url      |-> Get(itm, "url", EmptyStr) ]

\* the dict of lines 90-96
ExternalRecord(itm) ==
    [ title    |-> Get(itm, "title", EmptyStr),
      provider |-> Get(itm, "provider", EmptyStr),
      hours    |-> Get(itm, "estimated_hours", Num(0)),
      status   |-> Get(itm, "status", InProgress),
      url      |-> Get(itm, "url", EmptyStr) ]

\* fetch_external(path): the list, or the exception of json.loads
fetch_external(file) ==
    IF ~file.exists THEN [ok |-> TRUE, v |-> <<>>]
    ELSE IF ~file.content.json THEN Failure("JSONDecodeError")
    ELSE [ok |-> TRUE,
          v  |-> [i \in 1..Len(file.content.doc) |-> ExternalRecord(file.content.doc[i])]]

---------------------------------------------------------------------------
(* the merge of line 132 and render_html, lines 100-111 *)

\* the test of line 132 made on the lowered status
IsCompletedAnyCase(e) == e.status.t = "str" /\ Lower(e.status.v) = Completed.v

\* the test of line 132: e['status']=='completed'
IsCompleted(e) == e.status = Completed

\* completed + [e for e in external if e['status']=='completed']
Certifications(compl, ext) == compl \o SelectSeq(ext, IsCompleted)

\* the document tpl.render(...) returns: the template is not part of the
\* model, the document is the values bound to its five variables
Html(total_hours, compl, ext, certifications) ==
    [ t |-> "html", profile |-> "DEFAULT_PROFILE", total_hours |-> total_hours,
      completed |-> compl, external |-> ext, certifications |-> certifications ]

NoIndex == [t |-> "absent"]

OldIndex == [t |-> "old"]

PartialIndex == [t |-> "partial"]

\* how render_html can end: the template fails to load or render (lines
\* 101-109), mkdir fails (110), index.html cannot be opened or is cut short
\* (111), or the page is written
RenderOutcomes == {"written", "TemplateError", "MkdirError", "OpenError", "WriteError"}

\* the output directory after render_html ended with the outcome
Rendered(dir, html, outcome) ==
    CASE outcome = "written"    -> [exists |-> TRUE, index |-> html]
      [] outcome = "WriteError" -> [exists |-> TRUE, index |-> PartialIndex]
      [] outcome = "OpenError"  -> [exists |-> TRUE, index |-> dir.index]
      [] OTHER                  -> dir

SuccessLine == "Generated HTML resume at {args.out}/index.html"

---------------------------------------------------------------------------
(* main, lines 114-135 *)

NoError == "none"

Unset == [t |-> "unset"]

\* line 123 skipped when a credential is given
ParseCsvUnlessCredential ==
    /\ pc = "parse_csv"
    /\ IF Truthy(token)
       THEN /\ total_csv' = Num(0)
            /\ recent_csv' = <<>>
            /\ pc' = "choose"
            /\ UNCHANGED <<calls, err>>
       ELSE /\ calls' = Append(calls, "parse_coursera_csv")
            /\ LET res == parse_coursera_csv(csvFile)
               IN  IF res.ok
                   THEN /\ total_csv' = Num(res.total)
                        /\ recent_csv' = res.comps
                        /\ pc' = "choose"
                        /\ err' = err
                   ELSE /\ pc' = "failed"
                        /\ err' = res.exc
                        /\ UNCHANGED <<total_csv, recent_csv>>
    /\ UNCHANGED <<token, csvFile, apiResp, extFile, completed, external, certs,
                   outDir, stdout>>

\* line 123: total_csv, recent_csv = parse_coursera_csv(args.csv)
ParseCsv ==
    /\ pc = "parse_csv"
    /\ calls' = Append(calls, "parse_coursera_csv")
    /\ LET res == parse_coursera_csv(csvFile)
       IN  IF res.ok
           THEN /\ total_csv' = Num(res.total)
                /\ recent_csv' = res.comps
                /\ pc' = "choose"
                /\ err' = err
           ELSE /\ pc' = "failed"
                /\ err' = res.exc
                /\ UNCHANGED <<total_csv, recent_csv>>
    /\ UNCHANGED <<token, csvFile, apiResp, extFile, completed, external, certs,
                   outDir, stdout>>

\* lines 125-127 with completed starting as the CSV list
FetchApiOntoCsv ==
    /\ pc = "choose"
    /\ Truthy(token)
    /\ calls' = Append(calls, "fetch_coursera_api")
    /\ LET res == fetch_coursera_api(apiResp)
       IN  IF res.ok
           THEN /\ completed' = recent_csv \o res.v
                /\ pc' = "load_external"
                /\ err' = err
           ELSE /\ completed' = recent_csv
                /\ pc' = "failed"
                /\ err' = res.exc
    /\ UNCHANGED <<token, csvFile, apiResp, extFile, total_csv, recent_csv, external,
                   certs, outDir, stdout>>

\* lines 125-127: completed=[]; completed += fetch_coursera_api(token)
FetchApi ==
    /\ pc = "choose"
    /\ Truthy(token)
    /\ calls' = Append(calls, "fetch_coursera_api")
    /\ LET res == fetch_coursera_api(apiResp)
       IN  IF res.ok
           THEN /\ completed' = <<>> \o res.v
                /\ pc' = "load_external"
                /\ err' = err
           ELSE /\ completed' = <<>>
                /\ pc' = "failed"
                /\ err' = res.exc
    /\ UNCHANGED <<token, csvFile, apiResp, extFile, total_csv, recent_csv, external,
                   certs, outDir, stdout>>

\* lines 125-129: completed=[]; completed += recent_csv
UseCsv ==
    /\ pc = "choose"
    /\ ~Truthy(token)
    /\ completed' = <<>> \o recent_csv
    /\ pc' = "load_external"
    /\ UNCHANGED <<token, csvFile, apiResp, extFile, total_csv, recent_csv, external,
                   certs, outDir, stdout, calls, err>>

\* line 131 with a failure of the load taken as an empty list
LoadExternalOrEmpty ==
    /\ pc = "load_external"
    /\ calls' = Append(calls, "fetch_external")
    /\ LET res == fetch_external(extFile)
       IN  external' = IF res.ok THEN res.v ELSE <<>>
    /\ pc' = "merge"
    /\ UNCHANGED <<token, csvFile, apiResp, extFile, total_csv, recent_csv, completed,
                   certs, outDir, stdout, err>>

\* line 131: external = fetch_external(args.external)
LoadExternal ==
    /\ pc = "load_external"
    /\ calls' = Append(calls, "fetch_external")
    /\ LET res == fetch_external(extFile)
       IN  IF res.ok
           THEN /\ external' = res.v
                /\ pc' = "merge"
                /\ err' = err
           ELSE /\ pc' = "failed"
                /\ err' = res.exc
                /\ UNCHANGED external
    /\ UNCHANGED <<token, csvFile, apiResp, extFile, total_csv, recent_csv, completed,
                   certs, outDir, stdout>>

\* line 132: certs = completed + [e for e in external if ...]
Merge ==
    /\ pc = "merge"
    /\ calls' = Append(calls, "merge")
    /\ certs' = Certifications(completed, external)
    /\ pc' = "render"
    /\ UNCHANGED <<token, csvFile, apiResp, extFile, total_csv, recent_csv, completed,
                   external, outDir, stdout, err>>

\* line 134: render_html(profile, total_csv, completed, external, certs, args.out)
Render ==
    /\ pc = "render"
    /\ calls' = Append(calls, "render_html")
    /\ \E outcome \in RenderOutcomes :
          /\ outDir' = Rendered(outDir, Html(total_csv, completed, external, certs), outcome)
          /\ IF outcome = "written"
             THEN pc' = "print" /\ err' = err
             ELSE pc' = "failed" /\ err' = outcome
    /\ UNCHANGED <<token, csvFile, apiResp, extFile, total_csv, recent_csv, completed,
                   external, certs, stdout>>

\* line 135: print(f"Generated HTML resume at {args.out}/index.html")
PrintPath ==
    /\ pc = "print"
    /\ calls' = Append(calls, "print")
    /\ stdout' = Append(stdout, SuccessLine)
    /\ pc' = "done"
    /\ UNCHANGED <<token, csvFile, apiResp, extFile, total_csv, recent_csv, completed,
                   external, certs, outDir, err>>

Next ==
    \/ ParseCsv
    \/ FetchApi
    \/ UseCsv
    \/ LoadExternal
    \/ Merge
    \/ Render
    \/ PrintPath

\* the state main starts in, the command line and the environment drawn
\* from the given sets
InitFrom(tokens, csvFiles, apiResps, extFiles, outDirs) ==
    /\ pc = "parse_csv"
    /\ token \in tokens
    /\ csvFile \in csvFiles
    /\ apiResp \in apiResps
    /\ extFile \in extFiles
    /\ outDir \in outDirs
    /\ total_csv = Unset
    /\ recent_csv = <<>>
    /\ completed = <<>>
    /\ external = <<>>
    /\ certs = <<>>
    /\ stdout = <<>>
    /\ calls = <<>>
    /\ err = NoError

---------------------------------------------------------------------------
(* the inputs: command lines, files, API answers and output directories *)

\* the longest CSV file, API element list and external list drawn
MaxRows == 2

MaxElements == 3

MaxItems == 3

SeqsUpTo(S, n) == UNION {[1..k -> S] : k \in 0..n}

\* the dict without one key
Without(dict, key) == [k \in DOMAIN dict \ {key} |-> dict[k]]

\* --coursera-token absent, given empty, given
NoToken == PyNone

SomeToken == Str(<<"t","o","k">>)

Tokens == {NoToken, EmptyStr, SomeToken}

TitleML == Str(<<"M","L">>)

TitleDL == Str(<<"D","L">>)

TitleX == Str(<<"X">>)

\* a row as csv.DictReader yields it; a cell is None in a row shorter than
\* the header
Row(name, hours, status, date) ==
    ("Course Name" :> name) @@ ("Hours" :> hours) @@ ("Status" :> status)
        @@ ("Completion Date" :> date)

HoursCells ==
    { PyNone, EmptyStr,
      Str(<<"a","b","c">>),
      Str(<<"2">>),
      Str(<<"3",".","5">>),
      Str(<<"0",".","2","5">>) }

StatusCells ==
    { PyNone, EmptyStr,
      Str(<<"C","o","m","p","l","e","t","e","d">>),
      Str(<<"P","A","S","S","E","D">>),
      Str(<<"C","e","r","t","i","f","i","c","a","t","e"," ","E","a","r","n","e","d">>),
      Str(<<"i","n"," ","p","r","o","g","r","e","s","s">>),
      Str(<<"c","o","m","p","l","e","t","e","d"," ">>) }

DateCells ==
    { PyNone, EmptyStr,
      Str(<<"2","0","2","4","-","0","1","-","0","1">>),
      Str(<<"2","0","2","3","-","0","6","-","0","1">>),
      Str(<<"0","1","-","0","6","-","2","0","2","3">>),
      Str(<<"1","5","/","0","3","/","2","0","2","4">>),
      Str(<<"0","0","0","1","-","0","1","-","0","1">>),
      Str(<<"2","0","2","4","-","0","3","-","1","5","T","1","0",":","3","0",":","0","0","Z">>),
      Str(<<"2","0","2","4","-","0","2","-","3","0">>),
      Str(<<"M","a","r","c","h"," ","2","0","2","4">>) }

StatusCompleted == Str(<<"C","o","m","p","l","e","t","e","d">>)

StatusInProgress == Str(<<"i","n"," ","p","r","o","g","r","e","s","s">>)

Date20240101 == Str(<<"2","0","2","4","-","0","1","-","0","1">>)

Date20240315 == Str(<<"2","0","2","4","-","0","3","-","1","5","T","1","0",":","3","0",":","0","0","Z">>)

Hours2 == Str(<<"2">>)

Hours35 == Str(<<"3",".","5">>)

\* rows that vary the Hours cell, the Status cell and the Completion Date
\* cell in turn, each also with the column missing from the file
CsvRows ==
    {Row(TitleML, h, st, Date20240101) :
        h \in HoursCells, st \in {StatusCompleted, StatusInProgress}}
    \cup {Without(Row(TitleML, Hours2, st, Date20240101), "Hours") :
        st \in {StatusCompleted, StatusInProgress}}
    \cup {Row(TitleDL, Hours2, st, Date20240315) : st \in StatusCells}
    \cup {Without(Row(TitleDL, Hours2, StatusCompleted, Date20240315), "Status")}
    \cup {Row(TitleDL, Hours35, StatusCompleted, d) : d \in DateCells}
    \cup {Without(Row(TitleDL, Hours35, StatusCompleted, Date20240101), "Completion Date")}

CsvFiles == {NoFile} \cup {File(rows) : rows \in SeqsUpTo(CsvRows, MaxRows)}

RowCompleted == Row(TitleML, Hours2, StatusCompleted, Date20240101)

RowUndated == Row(TitleDL, Hours35, StatusCompleted, EmptyStr)

RowInProgress == Row(TitleDL, Hours35, StatusInProgress, EmptyStr)

RowBadHours == Row(TitleML, Str(<<"a","b","c">>), StatusCompleted, Date20240101)

FewCsvFiles ==
    { NoFile, File(<<>>), File(<<RowCompleted>>), File(<<RowInProgress, RowUndated, RowCompleted>>),
      File(<<RowCompleted, RowBadHours>>) }

\* an element of the API answer
Element(name, workload, date, slug) ==
    [courseName |-> name, workload |-> workload, completionDate |-> date, slug |-> slug]

SlugML == Str(<<"m","l">>)

Workload == Str(<<"1","0","h">>)

DateStamp == Num(1700000000)

ElementML == Element(TitleML, Workload, DateStamp, SlugML)

ApiElements ==
    { ElementML,
      Element(TitleDL, Num(12), Date20240101, Str(<<"d","l">>)),
      Without(ElementML, "workload"),
      Without(ElementML, "completionDate"),
      Element(TitleML, Workload, PyNone, SlugML),
      Element(TitleML, Workload, Num(0), SlugML),
      Element(TitleML, Workload, EmptyStr, SlugML),
      Without(ElementML, "courseName"),
      Without(ElementML, "slug"),
      Without(Without(ElementML, "courseName"), "completionDate") }

Elements(list) == [elements |-> list]

ApiResponses ==
    {TransportError}
    \cup {Response(st, NotJson) : st \in {200, 300, 401}}
    \cup {Response(200, Json(<<>>))}
    \cup {Response(st, Json(Elements(l))) :
            st \in {200, 300, 401, 500}, l \in SeqsUpTo(ApiElements, MaxElements)}

FewApiResponses ==
    { TransportError, Response(401, NotJson), Response(500, Json(Elements(<<ElementML>>))),
      Response(300, Json(Elements(<<ElementML>>))), Response(200, NotJson),
      Response(200, Json(Elements(<<ElementML, Without(ElementML, "completionDate")>>))),
      Response(200, Json(Elements(<<Without(ElementML, "slug")>>))) }

\* an object of the external JSON array
Item(title, provider, hours, status, url) ==
    [title |-> title, provider |-> provider, estimated_hours |-> hours,
     status |-> status, url |-> url]

Udemy == Str(<<"U","d","e","m","y">>)

UrlX == Str(<<"h","t","t","p","s",":","/","/","x",".","t","e","s","t","/","x">>)

ItemX == Item(TitleX, Udemy, Num(3), Completed, UrlX)

ExtItems ==
    { ItemX,
      [title |-> TitleX, status |-> Completed],
      Item(TitleX, Udemy, Num(3), Str(<<"C","o","m","p","l","e","t","e","d">>), UrlX),
      Item(TitleDL, Udemy, Num(5), InProgress, UrlX),
      Without(ItemX, "status"),
      <<>>,
      ItemX @@ [notes |-> Udemy],
      Item(TitleX, Udemy, Num(3), PyNone, UrlX),
      Item(TitleML, ProviderLabel, Num(200), Completed, EmptyStr),
      [estimated_hours |-> Num(7), url |-> UrlX] }

ExtFiles ==
    {NoFile, File(NotJson)} \cup {File(Json(l)) : l \in SeqsUpTo(ExtItems, MaxItems)}

FewExtFiles ==
    { NoFile, File(NotJson), File(Json(<<>>)),
      File(Json(<<[title |-> TitleX, status |-> Completed], Without(ItemX, "status")>>)),
      File(Json(<<Item(TitleML, ProviderLabel, Num(200), Completed, EmptyStr)>>)) }

NoDir == [exists |-> FALSE, index |-> NoIndex]

OutDirs == {NoDir, [exists |-> TRUE, index |-> NoIndex], [exists |-> TRUE, index |-> OldIndex]}

---------------------------------------------------------------------------
(* specifications: main run on every combination of a few inputs of each   *)
(* kind, and on every CSV file, API answer and external file of the        *)
(* bounded sets                                                            *)

Init == InitFrom(Tokens, FewCsvFiles, FewApiResponses, FewExtFiles, OutDirs)

Spec == Init /\ [][Next]_vars

InitCsv ==
    \/ InitFrom({NoToken}, CsvFiles, {TransportError}, {NoFile}, {NoDir})
    \/ InitFrom({SomeToken}, FewCsvFiles, FewApiResponses, {NoFile}, {NoDir})

SpecCsv == InitCsv /\ [][Next]_vars

InitApi ==
    \/ InitFrom({SomeToken}, {NoFile, File(<<RowCompleted>>)}, ApiResponses, {NoFile}, {NoDir})
    \/ InitFrom({NoToken}, FewCsvFiles, {TransportError}, {NoFile}, {NoDir})

SpecApi == InitApi /\ [][Next]_vars

InitExt ==
    InitFrom({NoToken, SomeToken}, {File(<<RowCompleted, RowUndated>>)},
             {Response(200, Json(Elements(<<ElementML>>)))}, ExtFiles, {NoDir})

SpecExt == InitExt /\ [][Next]_vars

---------------------------------------------------------------------------
(* what the properties below speak about *)

Ran(c) == \E i \in 1..Len(calls) : calls[i] = c

\* the run ended by an exception raised in component c
FailedIn(c) == pc = "failed" /\ calls # <<>> /\ calls[Len(calls)] = c

Returned(c) == Ran(c) /\ ~FailedIn(c)

Range(seq) == {seq[i] : i \in 1..Len(seq)}

Count(seq, x) == Cardinality({i \in 1..Len(seq) : seq[i] = x})

\* main is about to call, or has called, render_html
AtRenderer == pc = "render" \/ Ran("render_html")

\* the credential counts as supplied when it is a non-empty string
Supplied == token.t = "str" /\ token.v # <<>>

---------------------------------------------------------------------------
(* C1 *)

\* C1: when a credential is supplied, the completed list handed to the
\* Renderer is the Remote Fetcher's output, the certifications list is that
\* output followed by external records only and holds no record of the CSV
\* Ingestor's completed list, and total_hours is the CSV Ingestor's total;
\* when none is supplied, the completed list is the CSV Ingestor's completed
\* list and the Remote Fetcher is never invoked.
C1_CompletedSource ==
    /\ ~Supplied => ~Ran("fetch_coursera_api")
    /\ AtRenderer =>
         /\ total_csv = Num(parse_coursera_csv(csvFile).total)
         /\ IF Supplied
            THEN /\ completed = fetch_coursera_api(apiResp).v
                 /\ SubSeq(certs, 1, Len(completed)) = completed
                 /\ \A i \in 1..Len(certs) :
                        /\ certs[i] \notin Range(recent_csv)
                        /\ i > Len(completed) => certs[i] \in Range(external)
            ELSE completed = parse_coursera_csv(csvFile).comps
    /\ pc \in {"print", "done"} =>
         /\ outDir.index.completed = completed
         /\ outDir.index.certifications = certs
         /\ outDir.index.total_hours = total_csv

C1_Witness ==
    /\ pc = "done"
    /\ Supplied
    /\ recent_csv # <<>>
    /\ completed # <<>>
    /\ total_csv.v > 0
    /\ Len(certs) > Len(completed)

---------------------------------------------------------------------------
(* C2 *)

\* the positions of the External Loader's records whose status is the str
\* "completed"
CompletedPositions ==
    {i \in 1..Len(external) : external[i].status = Str(<<"c","o","m","p","l","e","t","e","d">>)}

\* the k-th smallest member of a set of positions
Kth(S, k) == CHOOSE i \in S : Cardinality({j \in S : j <= i}) = k

\* C2: the certifications list is the completed list, whole and in order,
\* followed by exactly the External Loader's records whose status is
\* "completed", in their order, nothing de-duplicated; a record with any
\* other status is not in it.
C2_CertificationsAreUnion ==
    Ran("merge") =>
        /\ Len(certs) = Len(completed) + Cardinality(CompletedPositions)
        /\ \A i \in 1..Len(completed) : certs[i] = completed[i]
        /\ \A k \in 1..Cardinality(CompletedPositions) :
               certs[Len(completed) + k] = external[Kth(CompletedPositions, k)]
        /\ \A i \in 1..Len(external) :
               i \notin CompletedPositions => external[i] \notin Range(certs)

C2_Witness ==
    /\ pc = "done"
    /\ \E i \in 1..Len(completed) : \E j \in (Len(completed) + 1)..Len(certs) :
           certs[i].title = certs[j].title
    /\ \E i \in 1..Len(external) : external[i].status = Str(<<"C","o","m","p","l","e","t","e","d">>)
    /\ \E i \in 1..Len(external) : external[i].status = InProgress

---------------------------------------------------------------------------
(* C3 *)

\* the HTTP statuses of the client and server error classes
ErrorStatus(status) == status \in 400..599

\* every status outside the success class 2xx
NonSuccessStatus(status) == status \notin 200..299

Components ==
    {"parse_coursera_csv", "fetch_coursera_api", "fetch_external", "merge",
     "render_html", "print"}

\* a run has fully succeeded or fully failed, and a failure of the CSV
\* Ingestor, the Remote Fetcher (a transport error, or a status that
\* FailingStatus holds of) or the External Loader has aborted it there
AllOrNothing(FailingStatus(_)) ==
    /\ pc = "done" =>
         /\ outDir = [exists |-> TRUE, index |-> Html(total_csv, completed, external, certs)]
         /\ stdout = <<SuccessLine>>
         /\ err = NoError
    /\ pc # "done" => stdout = <<>>
    /\ pc = "failed" <=> err # NoError
    /\ Ran("parse_coursera_csv") /\ ~parse_coursera_csv(csvFile).ok
         => FailedIn("parse_coursera_csv")
    /\ Ran("fetch_coursera_api")
         /\ (apiResp.t = "error" \/ (apiResp.t = "response" /\ FailingStatus(apiResp.status)))
         => FailedIn("fetch_coursera_api")
    /\ Ran("fetch_external") /\ extFile.exists /\ ~extFile.content.json
         => FailedIn("fetch_external")
    /\ \A c \in {"parse_coursera_csv", "fetch_coursera_api", "fetch_external"} :
         FailedIn(c) => ~Ran("render_html")
    /\ \A c \in Components : Count(calls, c) <= 1

\* a step is taken by a run that has not ended, and only the Renderer's
\* step changes the output directory
OnlyRendererWrites ==
    /\ pc \notin {"done", "failed"}
    /\ outDir' # outDir => pc = "render"
    /\ stdout' # stdout => pc = "print"

---------------------------------------------------------------------------
(* C7 *)

StepsWithCredential ==
    <<"parse_coursera_csv", "fetch_coursera_api", "fetch_external", "merge",
      "render_html", "print">>

StepsWithoutCredential ==
    <<"parse_coursera_csv", "fetch_external", "merge", "render_html", "print">>

IsPrefix(p, q) == Len(p) <= Len(q) /\ SubSeq(q, 1, Len(p)) = p

\* C7: the steps happen in the order CSV Ingestor, Remote Fetcher (only with
\* a credential), External Loader, Merger, Renderer, print, each at most
\* once and after the previous one returned; the CSV Ingestor always runs,
\* and the path is printed only after index.html has been written.
C7_StepsInOrder ==
    LET steps == IF Supplied THEN StepsWithCredential ELSE StepsWithoutCredential
    IN  /\ IsPrefix(calls, steps)
        /\ pc # "parse_csv" => calls # <<>> /\ calls[1] = "parse_coursera_csv"
        /\ pc = "done" <=> calls = steps
        /\ \A i \in 1..(Len(calls) - 1) : ~FailedIn(calls[i])
        /\ stdout # <<>> => outDir.exists /\ outDir.index.t = "html"

C7_Witness ==
    /\ pc = "done"
    /\ Supplied
    /\ Len(calls) = 6
    /\ recent_csv # <<>>

---------------------------------------------------------------------------
(* C9 *)

\* C9: a missing input file is empty data: parse_coursera_csv of a missing
\* path returns (0, []) and fetch_external of a missing path returns [],
\* neither raising; with both files missing and no credential main reaches
\* the Renderer with total_hours = 0 and completed, external and
\* certifications empty.
C9_MissingFileIsEmpty ==
    /\ ~csvFile.exists /\ Ran("parse_coursera_csv") =>
         /\ ~FailedIn("parse_coursera_csv")
         /\ total_csv = Num(0)
         /\ recent_csv = <<>>
    /\ ~extFile.exists /\ Ran("fetch_external") =>
         /\ ~FailedIn("fetch_external")
         /\ external = <<>>
    /\ ~csvFile.exists /\ ~extFile.exists /\ ~Supplied =>
         /\ pc = "failed" => FailedIn("render_html")
         /\ AtRenderer =>
              /\ total_csv = Num(0)
              /\ completed = <<>>
              /\ external = <<>>
              /\ certs = <<>>
         /\ pc = "done" => outDir.index = Html(Num(0), <<>>, <<>>, <<>>)

C9_Witness ==
    /\ ~csvFile.exists
    /\ ~extFile.exists
    /\ ~Supplied
    /\ pc = "done"
    /\ outDir.index.profile = "DEFAULT_PROFILE"

---------------------------------------------------------------------------
(* C6 *)

\* the answer is a success: status 2xx and a JSON body
SuccessfulResponse ==
    apiResp.t = "response" /\ apiResp.status \in 200..299 /\ apiResp.body.json

ReturnedElements ==
    IF "elements" \in DOMAIN apiResp.body.doc THEN apiResp.body.doc["elements"] ELSE <<>>

\* the element has a completionDate that is neither null, empty nor zero
Dated(e) ==
    /\ "completionDate" \in DOMAIN e
    /\ e["completionDate"] \notin {PyNone, EmptyStr, Num(0)}

DatedPositions == {i \in 1..Len(ReturnedElements) : Dated(ReturnedElements[i])}

\* the record is the one the element yields: its title, the label
\* "Coursera", its workload or None, the URL of its slug
RecordOf(rec, e) ==
    /\ DOMAIN rec = {"title", "provider", "hours", "url"}
    /\ rec.title = e["courseName"]
    /\ rec.provider = Str(<<"C","o","u","r","s","e","r","a">>)
    /\ rec.hours = (IF "workload" \in DOMAIN e THEN e["workload"] ELSE PyNone)
    /\ rec.url = Str(<<"h","t","t","p","s",":","/","/","w","w","w",".","c","o","u","r","s","e","r","a",".","o","r","g","/","l","e","a","r","n","/">> \o e["slug"].v)

\* the fetch returned one record for each dated element, in their order
OneRecordPerDatedElement ==
    /\ Returned("fetch_coursera_api")
    /\ Len(completed) = Cardinality(DatedPositions)
    /\ \A k \in 1..Cardinality(DatedPositions) :
           LET e == ReturnedElements[Kth(DatedPositions, k)]
           IN  {"courseName", "slug"} \subseteq DOMAIN e /\ RecordOf(completed[k], e)

\* C6 as stated: every successful response yields one record for each dated
\* element, whichever of its other fields are absent.
C6_DatedElementAlwaysYieldsRecord ==
    Ran("fetch_coursera_api") /\ SuccessfulResponse => OneRecordPerDatedElement

\* C6, amended: for every successful response in which each dated element
\* has courseName and slug, fetch_coursera_api returns exactly one record
\* for every dated element and none for the others, in the provider's
\* order, each with the title, the label "Coursera", the workload as
\* returned (None if absent) and the URL of the slug; a dated element
\* without courseName or slug makes the fetch raise KeyError instead.
C6_DatedElementWithNameAndSlugYieldsRecord ==
    Ran("fetch_coursera_api") /\ SuccessfulResponse =>
        IF \A i \in DatedPositions :
               {"courseName", "slug"} \subseteq DOMAIN ReturnedElements[i]
        THEN OneRecordPerDatedElement
        ELSE FailedIn("fetch_coursera_api") /\ err = "KeyError"

C6_Witness ==
    /\ pc = "done"
    /\ SuccessfulResponse
    /\ Len(ReturnedElements) = 3
    /\ Len(completed) = 2
    /\ completed[1].hours = PyNone
    /\ completed[2].hours # PyNone
    /\ completed[1].title # completed[2].title
    /\ "courseName" \notin DOMAIN ReturnedElements[3]

---------------------------------------------------------------------------
(* C10 *)

JsonArray == extFile.exists /\ extFile.content.json

\* the value of the key, or the default when the object lacks the key
ValueOr(itm, key, default) == IF key \in DOMAIN itm THEN itm[key] ELSE default

\* C10: for an external file holding a JSON array of objects,
\* fetch_external returns one record per element in array order, its fields
\* taken from the keys title, provider, estimated_hours, status and url, a
\* missing key defaulting to "", "", 0, "in-progress" and ""; unknown keys
\* are ignored and no element is dropped or makes it fail.
C10_OneRecordPerItem ==
    Ran("fetch_external") /\ JsonArray =>
        /\ ~FailedIn("fetch_external")
        /\ Len(external) = Len(extFile.content.doc)
        /\ \A i \in 1..Len(external) :
               LET itm == extFile.content.doc[i]
               IN  external[i] =
                     [ title    |-> ValueOr(itm, "title", Str(<<>>)),
                       provider |-> ValueOr(itm, "provider", Str(<<>>)),
                       hours    |-> ValueOr(itm, "estimated_hours", Num(0)),
                       status   |-> ValueOr(itm, "status", Str(<<"i","n","-","p","r","o","g","r","e","s","s">>)),
                       url      |-> ValueOr(itm, "url", Str(<<>>)) ]

C10_Witness ==
    /\ pc = "done"
    /\ Len(external) = 3
    /\ extFile.content.doc[1] = <<>>
    /\ "notes" \in DOMAIN extFile.content.doc[2]
    /\ DOMAIN extFile.content.doc[3] = {"title", "status"}
    /\ external[1].status = InProgress
    /\ external[3].hours = Num(0)

---------------------------------------------------------------------------
(* C4, C5, C8 *)

CsvRowsRead == IF csvFile.exists THEN csvFile.content ELSE <<>>

\* the Hours of a row as the claim counts them: the number the cell holds,
\* zero when the cell is missing, empty or no number
ClaimedHours(r) ==
    IF "Hours" \in DOMAIN r /\ r["Hours"].t = "str" /\ PyFloat(r["Hours"].v).ok
    THEN PyFloat(r["Hours"].v).v
    ELSE 0

RECURSIVE SumOfHours(_)
SumOfHours(rows) ==
    IF rows = <<>> THEN 0 ELSE ClaimedHours(Head(rows)) + SumOfHours(Tail(rows))

\* the row's Status is, letter case aside, one of the three completed ones
StatusMatches(r) ==
    /\ "Status" \in DOMAIN r
    /\ r["Status"].t = "str"
    /\ Lower(r["Status"].v) \in
         { <<"c","o","m","p","l","e","t","e","d">>,
           <<"p","a","s","s","e","d">>,
           <<"c","e","r","t","i","f","i","c","a","t","e"," ","e","a","r","n","e","d">> }

MatchingPositions == {i \in 1..Len(CsvRowsRead) : StatusMatches(CsvRowsRead[i])}

\* the record built from a row of the file
RecordOfRow(r) == CsvRecord(r, ClaimedHours(r))

\* the completed list holds exactly one record for each matching row
OneRecordPerMatchingRow ==
    LET matching == MatchingPositions
        recs     == [i \in matching |-> RecordOfRow(CsvRowsRead[i])]
    IN  /\ Len(recent_csv) = Cardinality(matching)
        /\ \A i \in matching :
               Count(recent_csv, recs[i]) = Cardinality({j \in matching : recs[j] = recs[i]})

\* C4: for every CSV file that exists, parse_coursera_csv returns normally,
\* total_hours is the sum of the Hours of all rows (to the one decimal the
\* function reports), a row whose Hours is missing, empty or unparsable
\* counting zero, and such a row is still in the completed list if its
\* status matches.  Stated of the files in which no row is too short to
\* have a Status cell.
C4_UnparsableHoursCountZero ==
    /\ csvFile.exists
    /\ \A i \in 1..Len(CsvRowsRead) : ValueOr(CsvRowsRead[i], "Status", EmptyStr).t = "str"
    /\ Ran("parse_coursera_csv")
    =>
        /\ Returned("parse_coursera_csv")
        /\ total_csv = Num(Round1(SumOfHours(CsvRowsRead)))
        /\ OneRecordPerMatchingRow

Undated(x) == x.completed_at = PyNone

\* C5: the completed list is sorted descending by completion date with
\* every undated record after every dated one, and is a permutation of the
\* records built from the matching rows.
C5_SortedUndatedLast ==
    csvFile.exists /\ Returned("parse_coursera_csv") =>
        /\ \A i, j \in 1..Len(recent_csv) :
               i < j =>
                 \/ Undated(recent_csv[j])
                 \/ /\ ~Undated(recent_csv[i])
                    /\ ~Undated(recent_csv[j])
                    /\ DateOrd(recent_csv[i].completed_at) >= DateOrd(recent_csv[j].completed_at)
        /\ OneRecordPerMatchingRow

\* C8: parse_coursera_csv puts exactly one record in the completed list for
\* each row whose Status is, case-insensitively, "completed", "passed" or
\* "certificate earned" and none for any other row, whose hours still count
\* in total_hours; a matching row whose Completion Date matches none of the
\* formats is included with no completion date and an empty display string.
\* Stated of what the function has returned to line 123, main then being at
\* the test of line 126.
C8_OneRecordPerCompletedRow ==
    csvFile.exists /\ pc = "choose" =>
        /\ OneRecordPerMatchingRow
        /\ total_csv = Num(Round1(SumOfHours(CsvRowsRead)))
        /\ \A i \in MatchingPositions :
               LET r == CsvRowsRead[i]
               IN  ParseCompletionDate(r) = PyNone =>
                     [ title                |-> ValueOr(r, "Course Name", EmptyStr),
                       provider             |-> ProviderLabel,
                       hours                |-> Num(Round1(ClaimedHours(r))),
                       completed_at         |-> PyNone,
                       completed_at_display |-> EmptyStr ] \in Range(recent_csv)

C8_Witness ==
    /\ pc = "choose"
    /\ Len(CsvRowsRead) = 2
    /\ ValueOr(CsvRowsRead[1], "Status", EmptyStr) = StatusInProgress
    /\ ClaimedHours(CsvRowsRead[1]) > 0
    /\ StatusMatches(CsvRowsRead[2])
    /\ ValueOr(CsvRowsRead[2], "Completion Date", EmptyStr) = Str(<<"2","0","2","4","-","0","2","-","3","0">>)
    /\ Len(recent_csv) = 1
    /\ recent_csv[1].completed_at = PyNone
    /\ recent_csv[1].completed_at_display = EmptyStr
    /\ total_csv.v > recent_csv[1].hours.v

=============================================================================
